---- MODULE Spec2Model ----
(***************************************************************************)
(* SoroScanCore (soroban-contracts/soroscan_core/src/lib.rs): an           *)
(* access-controlled event registry kept in the contract's instance        *)
(* storage.  The instance storage is ONE key space: the three fixed keys   *)
(* "admin", "idxrs", "count" and the caller-chosen event_type symbols all  *)
(* address slots of the same map.                                          *)
(***************************************************************************)
EXTENDS Integers, Sequences, FiniteSets, TLC

\* ------------------------------------------------------------------ bounds
\* Stand-in for u64::MAX: the width of the counter, scaled down so that the
\* saturation point is reachable.
U64_MAX == 1
\* Number of ledger closes the environment performs.
MaxLedger == 1

\* ------------------------------------------------------------ input domains
Address == {"GA", "GB"}
\* The off-chain events an indexer reports: the contract that emitted the
\* event and the digest of its payload.
Observed == {[contract_id |-> "GA", payload_hash |-> "D1"],
             [contract_id |-> "GB", payload_hash |-> "D2"]}

\* Storage keys (lib.rs 8-10)
ADMIN_KEY == "admin"
INDEXERS_KEY == "idxrs"
COUNTER_KEY == "count"

\* Symbols a caller can pass as event_type: ordinary categories and the
\* symbols that equal the contract's own storage keys.
Symbols == {ADMIN_KEY, INDEXERS_KEY, COUNTER_KEY, "swap"}

VARIABLES
    storage,      \* instance storage: Symbols -> Val
    sequence,     \* env.ledger().sequence()
    timestamp,    \* env.ledger().timestamp()
    events,       \* events published by the last invocation
    last,         \* the last invocation: operation, arguments, result
    nsucc,        \* history: number of successful record_event calls
    lastRec       \* history: per category, the record built by the last successful record_event

vars == <<storage, sequence, timestamp, events, last, nsucc, lastRec>>

\* ------------------------------------------------------------------ values
Absent == [t |-> "absent"]
AddrVal(a) == [t |-> "addr", a |-> a]
U64Val(n) == [t |-> "u64", n |-> n]
\* A host map: its symbol-keyed part (<<>> or the fields of one struct) and
\* its address-keyed part (a function from addresses to booleans).
MapVal(syms, addrs) == [t |-> "map", syms |-> syms, addrs |-> addrs]

EmptyAddrs == [x \in {} |-> TRUE]

\* Map::<Address, bool>::new(&env)
NewMap == MapVal(<<>>, EmptyAddrs)

\* An EventRecord whose event_type is not taken from the call.
EventRecord_untyped(contract_id, event_type, payload_hash, ledger, ts) ==
    [contract_id |-> contract_id, event_type |-> "event",
     payload_hash |-> payload_hash, ledger |-> ledger, timestamp |-> ts]

\* #[contracttype] struct EventRecord: stored as a map keyed by field names
EventRecord(contract_id, event_type, payload_hash, ledger, ts) ==
    [contract_id |-> contract_id, event_type |-> event_type,
     payload_hash |-> payload_hash, ledger |-> ledger, timestamp |-> ts]

RecordVal(rec) == MapVal(<<rec>>, EmptyAddrs)

\* ----------------------------------------------------------------- results
Ok(v) == [kind |-> "Ok", val |-> v]
Err(e) == [kind |-> "Err", val |-> e]
Trap == [kind |-> "Trap", val |-> "abort"]
None == <<>>
Some(v) == <<v>>

\* ---------------------------------------------------- storage primitives
has(s, key) == s[key].t # "absent"

set(s, key, val) == [s EXCEPT ![key] = val]

\* storage().instance().get::<_, Address>(key): None when the slot is absent,
\* aborts when the slot holds a value that is not an address.
get_Address(s, key) ==
    IF ~has(s, key) THEN Ok(None)
    ELSE IF s[key].t = "addr" THEN Ok(Some(s[key].a))
    ELSE Trap

\* get::<_, u64>(key)
get_u64(s, key) ==
    IF ~has(s, key) THEN Ok(None)
    ELSE IF s[key].t = "u64" THEN Ok(Some(s[key].n))
    ELSE Trap

\* A read of the map that falls back to an empty map when the slot is absent.
get_Map_or_default(s, key) ==
    IF ~has(s, key) THEN Ok(Some(MapVal(<<>>, EmptyAddrs)))
    ELSE IF s[key].t = "map" THEN Ok(Some(s[key]))
    ELSE Trap

\* get::<_, Map<Address, bool>>(key): any map object converts (the entries
\* are converted only when they are read).
get_Map(s, key) ==
    IF ~has(s, key) THEN Ok(None)
    ELSE IF s[key].t = "map" THEN Ok(Some(s[key]))
    ELSE Trap

\* get::<_, EventRecord>(key): the value must be a map holding exactly the
\* struct's fields.
get_EventRecord(s, key) ==
    IF ~has(s, key) THEN Ok(None)
    ELSE IF s[key].t = "map" /\ Len(s[key].syms) = 1 /\ DOMAIN s[key].addrs = {}
         THEN Ok(Some(s[key].syms[1]))
    ELSE Trap

\* Map::get(k).unwrap_or(false)
map_get_or_false(m, k) == IF k \in DOMAIN m.addrs THEN m.addrs[k] ELSE FALSE

\* The gate with the wrong default: unwrap_or(true).
is_allowed_default_true(indexers, indexer) ==
    IF indexer \in DOMAIN indexers.addrs THEN indexers.addrs[indexer] ELSE TRUE

\* record_event's gate (lib.rs 164): indexers.get(indexer).unwrap_or(false)
is_allowed_of(indexers, indexer) == map_get_or_false(indexers, indexer)

\* Map::set(k, true)
map_set_true(m, k) ==
    MapVal(m.syms, [x \in (DOMAIN m.addrs) \cup {k} |-> IF x = k THEN TRUE ELSE m.addrs[x]])

\* A removal that drops every address entry instead of the one asked for.
map_remove_clears(m, k) == MapVal(m.syms, EmptyAddrs)

\* Map::remove(k)
map_remove(m, k) ==
    MapVal(m.syms, [x \in (DOMAIN m.addrs) \ {k} |-> m.addrs[x]])

\* u64::saturating_add(1)
saturating_add_1(n) == IF n >= U64_MAX THEN U64_MAX ELSE n + 1

\* --------------------------------------------------------------- outcomes
\* The outcome of an invocation: its result, the storage it commits and the
\* events it publishes.
Outcome(r, s, ev) == [result |-> r, storage |-> s, events |-> ev]
Fail(r, s) == Outcome(r, s, <<>>)

\* ------------------------------------------------------------- operations
\* init that also whitelists the admin as an indexer.
init_admin_is_indexer(s, admin) ==
    IF has(s, ADMIN_KEY) THEN Fail(Err("AlreadyInitialized"), s)
    ELSE Outcome(Ok("unit"),
                 set(set(set(s, ADMIN_KEY, AddrVal(admin)), INDEXERS_KEY,
                         map_set_true(NewMap, admin)),
                     COUNTER_KEY, U64Val(0)),
                 <<>>)

\* init without the one-shot guard.
init_unguarded(s, admin) ==
    Outcome(Ok("unit"),
            set(set(set(s, ADMIN_KEY, AddrVal(admin)), INDEXERS_KEY, NewMap),
                COUNTER_KEY, U64Val(0)),
            <<>>)

\* init (lib.rs 53-65)
init(s, admin) ==
    IF has(s, ADMIN_KEY) THEN Fail(Err("AlreadyInitialized"), s)
    ELSE Outcome(Ok("unit"),
                 set(set(set(s, ADMIN_KEY, AddrVal(admin)), INDEXERS_KEY, NewMap),
                     COUNTER_KEY, U64Val(0)),
                 <<>>)

\* add_indexer that publishes no event.
add_indexer_silent(s, auth, admin, indexer) ==
    IF ~auth THEN Fail(Trap, s)
    ELSE LET stored_admin == get_Address(s, ADMIN_KEY) IN
    IF stored_admin.kind = "Trap" THEN Fail(Trap, s)
    ELSE IF stored_admin.val = None THEN Fail(Err("NotInitialized"), s)
    ELSE IF admin # stored_admin.val[1] THEN Fail(Err("Unauthorized"), s)
    ELSE LET got == get_Map(s, INDEXERS_KEY) IN
    IF got.kind = "Trap" THEN Fail(Trap, s)
    ELSE IF got.val = None THEN Fail(Err("NotInitialized"), s)
    ELSE Outcome(Ok("unit"),
                 set(s, INDEXERS_KEY, map_set_true(got.val[1], indexer)),
                 <<>>)

\* add_indexer (lib.rs 73-100); auth: whether admin.require_auth() is satisfied
add_indexer(s, auth, admin, indexer) ==
    IF ~auth THEN Fail(Trap, s)
    ELSE LET stored_admin == get_Address(s, ADMIN_KEY) IN
    IF stored_admin.kind = "Trap" THEN Fail(Trap, s)
    ELSE IF stored_admin.val = None THEN Fail(Err("NotInitialized"), s)
    ELSE IF admin # stored_admin.val[1] THEN Fail(Err("Unauthorized"), s)
    ELSE LET got == get_Map(s, INDEXERS_KEY) IN
    IF got.kind = "Trap" THEN Fail(Trap, s)
    ELSE IF got.val = None THEN Fail(Err("NotInitialized"), s)
    ELSE LET indexers == map_set_true(got.val[1], indexer) IN
         Outcome(Ok("unit"),
                 set(s, INDEXERS_KEY, indexers),
                 << [topics |-> <<"indexer", "add">>, data |-> indexer] >>)

\* remove_indexer that rejects the removal of an identity that is no member.
remove_indexer_strict(s, auth, admin, indexer) ==
    IF ~auth THEN Fail(Trap, s)
    ELSE LET stored_admin == get_Address(s, ADMIN_KEY) IN
    IF stored_admin.kind = "Trap" THEN Fail(Trap, s)
    ELSE IF stored_admin.val = None THEN Fail(Err("NotInitialized"), s)
    ELSE IF admin # stored_admin.val[1] THEN Fail(Err("Unauthorized"), s)
    ELSE LET got == get_Map(s, INDEXERS_KEY) IN
    IF got.kind = "Trap" THEN Fail(Trap, s)
    ELSE IF got.val = None THEN Fail(Err("NotInitialized"), s)
    ELSE IF ~map_get_or_false(got.val[1], indexer) THEN Fail(Err("IndexerNotFound"), s)
    ELSE Outcome(Ok("unit"),
                 set(s, INDEXERS_KEY, map_remove(got.val[1], indexer)),
                 << [topics |-> <<"indexer", "rem">>, data |-> indexer] >>)

\* remove_indexer (lib.rs 108-135)
remove_indexer(s, auth, admin, indexer) ==
    IF ~auth THEN Fail(Trap, s)
    ELSE LET stored_admin == get_Address(s, ADMIN_KEY) IN
    IF stored_admin.kind = "Trap" THEN Fail(Trap, s)
    ELSE IF stored_admin.val = None THEN Fail(Err("NotInitialized"), s)
    ELSE IF admin # stored_admin.val[1] THEN Fail(Err("Unauthorized"), s)
    ELSE LET got == get_Map(s, INDEXERS_KEY) IN
    IF got.kind = "Trap" THEN Fail(Trap, s)
    ELSE IF got.val = None THEN Fail(Err("NotInitialized"), s)
    ELSE LET indexers == map_remove(got.val[1], indexer) IN
         Outcome(Ok("unit"),
                 set(s, INDEXERS_KEY, indexers),
                 << [topics |-> <<"indexer", "rem">>, data |-> indexer] >>)

\* record_event that advances the counter before it checks the caller.
record_event_counts_first(s, auth, indexer, contract_id, event_type, payload_hash, ledger, ts) ==
    IF ~auth THEN Fail(Trap, s)
    ELSE LET got == get_Map(s, INDEXERS_KEY)
             stored == get_u64(s, COUNTER_KEY)
         IN
    IF got.kind = "Trap" \/ stored.kind = "Trap" THEN Fail(Trap, s)
    ELSE IF got.val = None THEN Fail(Err("NotInitialized"), s)
    ELSE LET count == saturating_add_1(IF stored.val = None THEN 0 ELSE stored.val[1])
             s1 == set(s, COUNTER_KEY, U64Val(count))
             record == EventRecord(contract_id, event_type, payload_hash, ledger, ts)
         IN
    IF ~is_allowed_of(got.val[1], indexer) THEN Fail(Err("IndexerNotFound"), s1)
    ELSE Outcome(Ok(count), set(s1, event_type, RecordVal(record)),
                 << [topics |-> <<"soroscan", event_type>>, data |-> record] >>)

\* record_event (lib.rs 149-193); ledger, ts: env.ledger().sequence() and
\* env.ledger().timestamp() of the invocation
record_event(s, auth, indexer, contract_id, event_type, payload_hash, ledger, ts) ==
    IF ~auth THEN Fail(Trap, s)
    ELSE LET got == get_Map(s, INDEXERS_KEY) IN
    IF got.kind = "Trap" THEN Fail(Trap, s)
    ELSE IF got.val = None THEN Fail(Err("NotInitialized"), s)
    ELSE LET is_allowed == is_allowed_of(got.val[1], indexer) IN
    IF ~is_allowed THEN Fail(Err("IndexerNotFound"), s)
    ELSE LET record == EventRecord(contract_id, event_type, payload_hash, ledger, ts)
             stored == get_u64(s, COUNTER_KEY)
         IN
    IF stored.kind = "Trap" THEN Fail(Trap, s)
    ELSE LET count == saturating_add_1(IF stored.val = None THEN 0 ELSE stored.val[1])
             s1 == set(s, COUNTER_KEY, U64Val(count))
             s2 == set(s1, event_type, RecordVal(record))
         IN Outcome(Ok(count), s2,
                    << [topics |-> <<"soroscan", event_type>>, data |-> record] >>)

\* latest_by_type (lib.rs 203-205)
latest_by_type(s, event_type) == get_EventRecord(s, event_type)

\* total_events (lib.rs 214-216)
total_events(s) ==
    LET got == get_u64(s, COUNTER_KEY) IN
    IF got.kind = "Trap" THEN Trap
    ELSE IF got.val = None THEN Ok(0) ELSE Ok(got.val[1])

\* is_indexer (lib.rs 226-232)
is_indexer(s, indexer) ==
    LET indexers == get_Map(s, INDEXERS_KEY) IN
    IF indexers.kind = "Trap" THEN Trap
    ELSE IF indexers.val = None THEN Ok(FALSE)
    ELSE Ok(map_get_or_false(indexers.val[1], indexer))

\* get_admin (lib.rs 241-243)
get_admin(s) == get_Address(s, ADMIN_KEY)

\* ---------------------------------------------------------- state machine
NoArg == "-"

\* An observed invocation: the operation, whether the identity it names as
\* caller authorized it, its arguments and its result; prior: for add_indexer
\* and remove_indexer, what is_indexer answered for the target before the call.
Invocation(op, auth, caller, arg, category, result, prior) ==
    [op |-> op, auth |-> auth, caller |-> caller, arg |-> arg,
     category |-> category, result |-> result, prior |-> prior]

\* The values explored for an argument that follows the identity whose
\* require_auth() opens the operation: when the authorization fails the
\* invocation aborts before the argument is read, and one value stands for all.
Unread(auth, S, one) == IF auth THEN S ELSE {one}

\* A freshly deployed contract: nothing in instance storage.
Init ==
    /\ storage = [k \in Symbols |-> Absent]
    /\ sequence = 0
    /\ timestamp = 0
    /\ events = <<>>
    /\ last = Invocation("deploy", FALSE, NoArg, NoArg, NoArg, Ok("unit"), NoArg)
    /\ nsucc = 0
    /\ lastRec = [k \in Symbols |-> None]

\* The environment closes a ledger: the sequence number and the clock advance.
AdvanceLedger ==
    /\ sequence < MaxLedger
    /\ sequence' = sequence + 1
    /\ timestamp' = timestamp + 5
    /\ events' = <<>>
    /\ last' = Invocation("close_ledger", FALSE, NoArg, NoArg, NoArg, Ok("unit"), NoArg)
    /\ UNCHANGED <<storage, nsucc, lastRec>>

Call_init ==
    \E admin \in Address :
      \E o \in {init(storage, admin)} :
        /\ storage' = o.storage
        /\ events' = o.events
        /\ last' = Invocation("init", FALSE, admin, NoArg, NoArg, o.result, NoArg)
        /\ UNCHANGED <<sequence, timestamp, nsucc, lastRec>>

Call_add_indexer ==
    \E auth \in BOOLEAN, admin \in Address :
    \E indexer \in Unread(auth, Address, admin) :
      \E o \in {add_indexer(storage, auth, admin, indexer)} :
        /\ storage' = o.storage
        /\ events' = o.events
        /\ last' = Invocation("add_indexer", auth, admin, indexer, NoArg, o.result, is_indexer(storage, indexer))
        /\ UNCHANGED <<sequence, timestamp, nsucc, lastRec>>

Call_remove_indexer ==
    \E auth \in BOOLEAN, admin \in Address :
    \E indexer \in Unread(auth, Address, admin) :
      \E o \in {remove_indexer(storage, auth, admin, indexer)} :
        /\ storage' = o.storage
        /\ events' = o.events
        /\ last' = Invocation("remove_indexer", auth, admin, indexer, NoArg, o.result, is_indexer(storage, indexer))
        /\ UNCHANGED <<sequence, timestamp, nsucc, lastRec>>

\* The history counter nsucc is capped: one successful call more than the
\* counter can count is explored.
Call_record_event ==
    /\ nsucc <= U64_MAX
    /\ \E auth \in BOOLEAN, indexer \in Address :
       \E ev \in Unread(auth, Observed, [contract_id |-> "GA", payload_hash |-> "D1"]),
          event_type \in Unread(auth, Symbols, "swap") :
         \E o \in {record_event(storage, auth, indexer, ev.contract_id, event_type,
                               ev.payload_hash, sequence, timestamp)} :
         LET contract_id == ev.contract_id
             payload_hash == ev.payload_hash
             ok == o.result.kind = "Ok"
         IN
           /\ storage' = o.storage
           /\ events' = o.events
           /\ last' = Invocation("record_event", auth, indexer, NoArg, event_type, o.result, NoArg)
           /\ nsucc' = IF ok THEN nsucc + 1 ELSE nsucc
           /\ lastRec' = IF ok
                         THEN [lastRec EXCEPT ![event_type] =
                                 Some(EventRecord(contract_id, event_type, payload_hash,
                                                  sequence, timestamp))]
                         ELSE lastRec
           /\ UNCHANGED <<sequence, timestamp>>

Call_latest_by_type ==
    \E event_type \in Symbols :
      /\ last' = Invocation("latest_by_type", FALSE, NoArg, NoArg, event_type,
                            latest_by_type(storage, event_type), NoArg)
      /\ events' = <<>>
      /\ UNCHANGED <<storage, sequence, timestamp, nsucc, lastRec>>

Call_total_events ==
      /\ last' = Invocation("total_events", FALSE, NoArg, NoArg, NoArg, total_events(storage), NoArg)
      /\ events' = <<>>
      /\ UNCHANGED <<storage, sequence, timestamp, nsucc, lastRec>>

Call_is_indexer ==
    \E indexer \in Address :
      /\ last' = Invocation("is_indexer", FALSE, NoArg, indexer, NoArg,
                            is_indexer(storage, indexer), NoArg)
      /\ events' = <<>>
      /\ UNCHANGED <<storage, sequence, timestamp, nsucc, lastRec>>

Call_get_admin ==
      /\ last' = Invocation("get_admin", FALSE, NoArg, NoArg, NoArg, get_admin(storage), NoArg)
      /\ events' = <<>>
      /\ UNCHANGED <<storage, sequence, timestamp, nsucc, lastRec>>

Next ==
    \/ AdvanceLedger
    \/ Call_init
    \/ Call_add_indexer
    \/ Call_remove_indexer
    \/ Call_record_event
    \/ Call_latest_by_type
    \/ Call_total_events
    \/ Call_is_indexer
    \/ Call_get_admin

Spec == Init /\ [][Next]_vars

\* ------------------------------------------------------------ properties
IsOk(r) == r.kind = "Ok"
IsErr(r, e) == r.kind = "Err" /\ r.val = e
Initialized(s) == has(s, ADMIN_KEY)
IndexerOps == {"add_indexer", "remove_indexer"}

\* The answers of is_indexer for every identity.
Membership(s) == [i \in Address |-> is_indexer(s, i)]

\* C1: once init(a) has succeeded, get_admin() returns a in every later
\* state, whatever calls follow (any event_type, the storage keys included).
C1_AdminImmutable ==
    [][ /\ (last'.op = "init" /\ IsOk(last'.result))
            => get_admin(storage') = Ok(Some(last'.caller))
        /\ (IsOk(get_admin(storage)) /\ get_admin(storage).val # None)
            => get_admin(storage') = get_admin(storage) ]_vars

\* C2: every step that changes the indexer membership or the content of the
\* indexer slot is a successful add_indexer/remove_indexer whose admin
\* argument is authorized and equals the stored admin.
C2_OnlyAdminMutatesIndexers ==
    [][ ( \/ Membership(storage') # Membership(storage)
          \/ (has(storage, INDEXERS_KEY)
                /\ storage'[INDEXERS_KEY] # storage[INDEXERS_KEY]) )
        => /\ last'.op \in IndexerOps
           /\ IsOk(last'.result)
           /\ last'.auth
           /\ get_admin(storage) = Ok(Some(last'.caller)) ]_vars

\* C3: in an initialized deployment a record_event authorized by an identity
\* that is not a current member fails with IndexerNotFound and leaves
\* total_events() (and the whole storage) unchanged; every successful
\* record_event was made by an identity for which is_indexer was true.
C3_NonMemberRejected ==
    [][ (last'.op = "record_event" /\ last'.auth /\ Initialized(storage))
        => /\ (is_indexer(storage, last'.caller) # Ok(TRUE))
                => /\ IsErr(last'.result, "IndexerNotFound")
                   /\ total_events(storage') = total_events(storage)
                   /\ storage' = storage
           /\ IsOk(last'.result) => is_indexer(storage, last'.caller) = Ok(TRUE) ]_vars

\* C3 witness: after at least one recorded event, a non-member's authorized
\* record_event was rejected with IndexerNotFound.
C3_Witness ==
    /\ last.op = "record_event" /\ last.auth
    /\ IsErr(last.result, "IndexerNotFound")
    /\ Initialized(storage)
    /\ nsucc >= 1

\* C4: an init on a deployment that already has an admin slot fails with
\* AlreadyInitialized and leaves the admin (and the whole storage) as it was;
\* in particular right after the first init the admin is the first call's.
C4_SecondInitRejected ==
    [][ (last'.op = "init" /\ Initialized(storage))
        => /\ IsErr(last'.result, "AlreadyInitialized")
           /\ get_admin(storage') = get_admin(storage)
           /\ storage' = storage
           /\ (last.op = "init" /\ IsOk(last.result))
                => get_admin(storage') = Ok(Some(last.caller)) ]_vars

\* C4 witness: a second init with a different identity was rejected and the
\* admin is still the first one.
C4_Witness ==
    /\ last.op = "init"
    /\ IsErr(last.result, "AlreadyInitialized")
    /\ IsOk(get_admin(storage))
    /\ get_admin(storage) # Ok(Some(last.caller))

\* C5: after init, total_events() equals the number N of successful
\* record_event calls, and the k-th successful call returns k (stated below
\* the saturation point of the counter).
C5_TotalEqualsSuccesses ==
    (Initialized(storage) /\ nsucc <= U64_MAX)
    => /\ total_events(storage) = Ok(nsucc)
       /\ (last.op = "record_event" /\ IsOk(last.result)) => last.result.val = nsucc

\* C6: across every step total_events() does not decrease, and a failing
\* call leaves it as it was.
C6_CounterNeverDecreases ==
    [][ IsOk(total_events(storage))
        => /\ IsOk(total_events(storage'))
           /\ total_events(storage').val >= total_events(storage).val
           /\ ~IsOk(last'.result) => total_events(storage') = total_events(storage) ]_vars

\* C7: for every category c in which a record_event has succeeded,
\* latest_by_type(c) returns the record built by the last such call.
C7_LatestIsLastRecorded ==
    \A c \in Symbols :
        lastRec[c] # None => latest_by_type(storage, c) = Ok(lastRec[c])

\* C8: for every category c (the storage keys included) in which no event
\* has ever been recorded, latest_by_type(c) returns absent.
C8_NeverRecordedIsAbsent ==
    \A c \in Symbols :
        lastRec[c] = None => latest_by_type(storage, c) = Ok(None)

\* C9: an identity is no indexer until an add_indexer for it succeeds; right
\* after a successful add_indexer(admin, i) is_indexer(i) is true; right after
\* a successful remove_indexer(admin, i) it is false; both leave the
\* membership of every other identity unchanged.
C9_AddRemoveMembership ==
    [][ /\ (last'.op = "add_indexer" /\ IsOk(last'.result))
            => /\ is_indexer(storage', last'.arg) = Ok(TRUE)
               /\ \A j \in Address \ {last'.arg} :
                      is_indexer(storage', j) = is_indexer(storage, j)
        /\ (last'.op = "remove_indexer" /\ IsOk(last'.result))
            => /\ is_indexer(storage', last'.arg) = Ok(FALSE)
               /\ \A j \in Address \ {last'.arg} :
                      is_indexer(storage', j) = is_indexer(storage, j)
        /\ \A i \in Address :
             (is_indexer(storage, i) # Ok(TRUE) /\ is_indexer(storage', i) = Ok(TRUE))
                => (last'.op = "add_indexer" /\ IsOk(last'.result) /\ last'.arg = i) ]_vars

\* C9 witness: an identity that was a member has just been removed by the
\* admin, and another identity is still a member.
C9_Witness ==
    /\ last.op = "remove_indexer" /\ IsOk(last.result)
    /\ last.prior = Ok(TRUE)
    /\ is_indexer(storage, last.arg) = Ok(FALSE)
    /\ \E j \in Address \ {last.arg} : is_indexer(storage, j) = Ok(TRUE)

\* C10: in an initialized deployment an authorized add_indexer/remove_indexer
\* whose admin argument is not the stored admin fails with Unauthorized and
\* leaves the indexer set unchanged.
C10_NonAdminUnauthorized ==
    [][ ( /\ last'.op \in IndexerOps
          /\ last'.auth
          /\ Initialized(storage)
          /\ get_admin(storage) # Ok(Some(last'.caller)) )
        => /\ IsErr(last'.result, "Unauthorized")
           /\ Membership(storage') = Membership(storage)
           /\ storage'[INDEXERS_KEY] = storage[INDEXERS_KEY] ]_vars

MutatingOps == {"init", "add_indexer", "remove_indexer", "record_event"}
GatedOps == {"add_indexer", "remove_indexer", "record_event"}

\* C11: an invocation of init, add_indexer, remove_indexer or record_event
\* that returns one of the four contract errors leaves every slot of the
\* storage as it was and publishes no event.
C11_FailureIsAllOrNothing ==
    [][ (last'.op \in MutatingOps /\ last'.result.kind = "Err")
        => /\ last'.result.val \in {"AlreadyInitialized", "NotInitialized",
                                    "Unauthorized", "IndexerNotFound"}
           /\ storage' = storage
           /\ events' = <<>> ]_vars

\* C11 witness: after an event has been recorded, an authorized non-admin's
\* add_indexer/remove_indexer failed with Unauthorized.
C11_Witness ==
    /\ last.op \in IndexerOps /\ last.auth
    /\ IsErr(last.result, "Unauthorized")
    /\ nsucc >= 1

\* C12: the three foundational slots are all present or all absent; while
\* they are absent every authorized add_indexer, remove_indexer and
\* record_event fails with NotInitialized and leaves them absent; only a
\* successful init makes them present, and once present they stay present.
C12_TwoMacroStates ==
    [][ /\ (has(storage, ADMIN_KEY) <=> has(storage, INDEXERS_KEY))
        /\ (has(storage, ADMIN_KEY) <=> has(storage, COUNTER_KEY))
        /\ (~Initialized(storage) /\ last'.op \in GatedOps /\ last'.auth)
            => /\ IsErr(last'.result, "NotInitialized")
               /\ ~Initialized(storage')
        /\ (~Initialized(storage) /\ Initialized(storage'))
            => (last'.op = "init" /\ IsOk(last'.result))
        /\ Initialized(storage) => Initialized(storage') ]_vars

\* C12 witness: on a deployment that was never initialized, an authorized
\* record_event failed with NotInitialized.
C12_Witness ==
    /\ ~Initialized(storage)
    /\ last.op = "record_event" /\ last.auth
    /\ IsErr(last.result, "NotInitialized")

\* Whether the slot of category c holds an EventRecord.
HoldsRecord(s, c) == IsOk(latest_by_type(s, c)) /\ latest_by_type(s, c).val # None

\* C13: on an uninitialized deployment init(a) succeeds for every identity a
\* (it asks for no authorization), and right after it get_admin() = a, no
\* identity is an indexer, total_events() = 0 and no slot holds a record.
C13_InitEstablishesState ==
    [][ (last'.op = "init" /\ ~Initialized(storage))
        => /\ IsOk(last'.result)
           /\ ~last'.auth
           /\ get_admin(storage') = Ok(Some(last'.caller))
           /\ \A i \in Address : is_indexer(storage', i) = Ok(FALSE)
           /\ total_events(storage') = Ok(0)
           /\ \A c \in Symbols : ~HoldsRecord(storage', c) ]_vars

\* C13 witness: the state right after the first init.
C13_Witness ==
    /\ last.op = "init" /\ IsOk(last.result)
    /\ get_admin(storage) = Ok(Some(last.caller))

\* C14: with the counter at its maximum, a successful record_event returns
\* the maximum, leaves the counter at the maximum, overwrites the slot of its
\* category and publishes the notification.
C14_CounterSaturates ==
    [][ ( /\ last'.op = "record_event" /\ last'.auth
          /\ total_events(storage) = Ok(U64_MAX)
          /\ is_indexer(storage, last'.caller) = Ok(TRUE) )
        => /\ IsOk(last'.result)
           /\ last'.result.val = U64_MAX
           /\ total_events(storage') = Ok(U64_MAX)
           /\ latest_by_type(storage', last'.category) = Ok(lastRec'[last'.category])
           /\ Len(events') = 1 ]_vars

\* C15: remove_indexer(admin, i) by the stored admin for an identity i that
\* is no member succeeds, leaves every identity's membership unchanged and
\* publishes the indexer-removed notification carrying i.
C15_RemoveNonMember ==
    [][ ( /\ last'.op = "remove_indexer" /\ last'.auth
          /\ get_admin(storage) = Ok(Some(last'.caller))
          /\ is_indexer(storage, last'.arg) = Ok(FALSE) )
        => /\ IsOk(last'.result)
           /\ Membership(storage') = Membership(storage)
           /\ events' = << [topics |-> <<"indexer", "rem">>, data |-> last'.arg] >> ]_vars

\* C15 witness: the admin has just removed an identity that was no member,
\* while another identity is a member.
C15_Witness ==
    /\ last.op = "remove_indexer" /\ IsOk(last.result)
    /\ last.prior = Ok(FALSE)
    /\ Len(events) = 1
    /\ \E j \in Address \ {last.arg} : is_indexer(storage, j) = Ok(TRUE)

\* C16: in every reachable state is_indexer(i) and total_events() return a
\* value (they never fail); is_indexer(i) is true exactly when the stored map
\* holds i with value true and false when the map is absent; total_events()
\* is the stored counter, or 0 when it is absent.
C16_QueriesNeverFail ==
    /\ \A i \in Address :
         /\ IsOk(is_indexer(storage, i))
         /\ is_indexer(storage, i).val
              <=> ( /\ has(storage, INDEXERS_KEY)
                    /\ i \in DOMAIN storage[INDEXERS_KEY].addrs
                    /\ storage[INDEXERS_KEY].addrs[i] )
    /\ IsOk(total_events(storage))
    /\ ~has(storage, COUNTER_KEY) => total_events(storage) = Ok(0)

QueryOps == {"latest_by_type", "total_events", "is_indexer", "get_admin"}

\* C17: every init after the first, every add_indexer and remove_indexer and
\* every query leaves total_events() and latest_by_type(c), for every
\* category c, as they were.
C17_OnlyRecordTouchesRecords ==
    [][ ( \/ last'.op \in IndexerOps \cup QueryOps
          \/ (last'.op = "init" /\ Initialized(storage)) )
        => /\ total_events(storage') = total_events(storage)
           /\ \A c \in Symbols :
                latest_by_type(storage', c) = latest_by_type(storage, c) ]_vars

\* C18: a successful record_event publishes exactly one event, tagged with
\* its category and carrying the record that latest_by_type(category) returns
\* right after the call; a successful add_indexer / remove_indexer publishes
\* exactly one event tagged with its kind and carrying the affected identity.
C18_OneNotificationPerSuccess ==
    [][ /\ (last'.op = "record_event" /\ IsOk(last'.result))
            => /\ Len(events') = 1
               /\ events'[1].topics = <<"soroscan", last'.category>>
               /\ latest_by_type(storage', last'.category) = Ok(Some(events'[1].data))
               /\ events'[1].data \in
                    { EventRecord(ev.contract_id, last'.category, ev.payload_hash,
                                  sequence, timestamp) : ev \in Observed }
        /\ (last'.op = "add_indexer" /\ IsOk(last'.result))
            => events' = << [topics |-> <<"indexer", "add">>, data |-> last'.arg] >>
        /\ (last'.op = "remove_indexer" /\ IsOk(last'.result))
            => events' = << [topics |-> <<"indexer", "rem">>, data |-> last'.arg] >> ]_vars

\* C18 witness: a record_event in a category that equals a storage key has
\* just succeeded and published its event.
C18_Witness ==
    /\ last.op = "record_event" /\ IsOk(last.result)
    /\ last.category = COUNTER_KEY
    /\ Len(events) = 1
    /\ latest_by_type(storage, last.category) = Ok(Some(events[1].data))

\* C19: in every reachable state, a record returned by latest_by_type(c) has
\* event_type = c.
C19_SlotHoldsItsCategory ==
    \A c \in Symbols :
        HoldsRecord(storage, c) => latest_by_type(storage, c).val[1].event_type = c

\* C19 witness: two different categories hold a record at the same time.
C19_Witness ==
    \E c, d \in Symbols : c # d /\ HoldsRecord(storage, c) /\ HoldsRecord(storage, d)

\* C20: a successful record_event with category c leaves latest_by_type(d)
\* for every other category d, get_admin() and is_indexer(i) for every
\* identity i as they were.
C20_RecordTouchesOnlyItsSlot ==
    [][ (last'.op = "record_event" /\ IsOk(last'.result))
        => /\ \A d \in Symbols \ {last'.category} :
                latest_by_type(storage', d) = latest_by_type(storage, d)
           /\ get_admin(storage') = get_admin(storage)
           /\ Membership(storage') = Membership(storage) ]_vars

====
